---- MODULE Spec2Model ----
(***************************************************************************)
(* Documind AI backend: the upload / chat session state machine            *)
(* (server.py, app.py) and the pure structuring functions of the text and  *)
(* table extractors and of the citation builder.                           *)
(*                                                                         *)
(* Strings are sequences of one-character strings, so that strip, split,   *)
(* startswith and the regular-expression search are computed, not assumed. *)
(***************************************************************************)
EXTENDS Integers, Sequences, FiniteSets, TLC

VARIABLES
    vectorstore,    \* PDFProcessor.vectorstore: None or the index of an upload
    chain,          \* PDFProcessor.chain: None or the chain over an index
    chat_history,   \* server.chat_history: sequence of (question, answer) turns
    uploads,        \* process_pdf calls in flight, by call number
    chats,          \* chat requests awaiting chain.ainvoke, by arrival number
    nUp,            \* number of upload requests / process_pdf calls so far
    nChat,          \* number of chat requests so far
    resp,           \* the last response (or raised error) handed to a caller
    everProcessed,  \* history: some process_pdf call has returned normally
    mode,           \* which pure function the function specifications apply
    input,          \* the argument of that function
    output          \* its result, in a one-element sequence (empty before the call)
                    \* or, for the gather of process_pdf, the record of its progress

vars == <<vectorstore, chain, chat_history, uploads, chats, nUp, nChat, resp,
          everProcessed, mode, input, output>>

sessionVars == <<vectorstore, chain, chat_history, uploads, chats, nUp, nChat,
                 resp, everProcessed>>

funcVars == <<mode, input, output>>

(***************************************************************************)
(* Bounds                                                                  *)
(***************************************************************************)
MaxUploads == 2
MaxChats == 2
MaxLineLen == 4
MaxPages == 2
MaxDocLines == 4
MaxTableCost == 4
MaxTablePages == 2
MaxRetrieved == 2

None == 0

(***************************************************************************)
(* Characters and Python string primitives                                 *)
(***************************************************************************)
Upper == {"A", "B", "C", "D", "E", "F", "G", "H", "I", "J", "K", "L", "M",
          "N", "O", "P", "Q", "R", "S", "T", "U", "V", "W", "X", "Y", "Z"}
Lower == {"a", "b", "c", "d", "e", "f", "g", "h", "i", "j", "k", "l", "m",
          "n", "o", "p", "q", "r", "s", "t", "u", "v", "w", "x", "y", "z"}
Digits == {"0", "1", "2", "3", "4", "5", "6", "7", "8", "9"}
Space == {" ", "\n", "\t"}

isdigit(c) == c \in Digits
isspace(c) == c \in Space

RECURSIVE lstrip(_)
lstrip(s) == IF s # <<>> /\ isspace(Head(s)) THEN lstrip(Tail(s)) ELSE s

RECURSIVE rstrip(_)
rstrip(s) ==
    IF s # <<>> /\ isspace(s[Len(s)]) THEN rstrip(SubSeq(s, 1, Len(s) - 1)) ELSE s

strip(s) == rstrip(lstrip(s))

\* s.split(sep) for a one-character separator: the pieces, empty ones included
RECURSIVE split(_, _)
split(s, sep) ==
    IF \A i \in 1 .. Len(s) : s[i] # sep THEN <<s>>
    ELSE LET i == CHOOSE k \in 1 .. Len(s) :
                      s[k] = sep /\ \A j \in 1 .. (k - 1) : s[j] # sep
         IN  <<SubSeq(s, 1, i - 1)>> \o split(SubSeq(s, i + 1, Len(s)), sep)

\* len(s.split()): the number of maximal runs of non-whitespace characters
word_count(s) ==
    Cardinality({i \in 1 .. Len(s) :
                    ~isspace(s[i]) /\ (i = 1 \/ isspace(s[i - 1]))})

\* sep.join(parts)
RECURSIVE join(_, _)
join(parts, sep) ==
    IF parts = <<>> THEN <<>>
    ELSE IF Len(parts) = 1 THEN parts[1]
    ELSE parts[1] \o sep \o join(Tail(parts), sep)

\* str.isupper: at least one cased character and no lowercase one
isupper(s) ==
    /\ \E i \in 1 .. Len(s) : s[i] \in Upper \cup Lower
    /\ \A i \in 1 .. Len(s) : s[i] \notin Lower

\* str.istitle: uppercase characters only after uncased ones, lowercase
\* characters only after cased ones, and at least one cased character
istitle(s) ==
    /\ \E i \in 1 .. Len(s) : s[i] \in Upper \cup Lower
    /\ \A i \in 1 .. Len(s) :
          LET prev_cased == i > 1 /\ s[i - 1] \in Upper \cup Lower
          IN  /\ (s[i] \in Upper => ~prev_cased)
              /\ (s[i] \in Lower => prev_cased)

endswith(s, c) == s # <<>> /\ s[Len(s)] = c

startswith(s, pre) == Len(s) >= Len(pre) /\ SubSeq(s, 1, Len(pre)) = pre

\* int(digits) and str(n) for a non-negative integer
DigitValue(c) ==
    CASE c = "0" -> 0 [] c = "1" -> 1 [] c = "2" -> 2 [] c = "3" -> 3 [] c = "4" -> 4
      [] c = "5" -> 5 [] c = "6" -> 6 [] c = "7" -> 7 [] c = "8" -> 8 [] c = "9" -> 9

DigitChar(d) == CHOOSE c \in Digits : DigitValue(c) = d

RECURSIVE int(_)
int(s) == IF s = <<>> THEN 0 ELSE 10 * int(SubSeq(s, 1, Len(s) - 1)) + DigitValue(s[Len(s)])

RECURSIVE str(_)
str(n) == IF n < 10 THEN <<DigitChar(n)>> ELSE str(n \div 10) \o <<DigitChar(n % 10)>>

(***************************************************************************)
(* app.py: PDFProcessor                                                    *)
(***************************************************************************)
MAX_FILE_SIZE == 10 * 1024 * 1024
MAX_SIZE == 10 * 1024 * 1024

Exts == {".pdf", ".PDF", ".txt"}
Sizes == {MAX_FILE_SIZE - 1, MAX_FILE_SIZE, MAX_FILE_SIZE + 1}

\* the paths process_pdf may be given: a file of some name and size, or a
\* name under which there is no file
Files ==
    [exists : {TRUE}, ext : Exts, size : Sizes] \cup
    [exists : {FALSE}, ext : Exts, size : {0}]

lower_ext(e) == IF e = ".PDF" THEN ".pdf" ELSE e

validate_pdf_ge(f) ==
    IF ~f.exists THEN "FileNotFoundError"
    ELSE IF lower_ext(f.ext) # ".pdf" THEN "ValueError: File must be a PDF"
    ELSE IF f.size >= MAX_FILE_SIZE THEN "ValueError: File size exceeds maximum"
    ELSE "ok"

\* validate_pdf: the exception it raises, or "ok"
validate_pdf(f) ==
    IF ~f.exists THEN "FileNotFoundError"
    ELSE IF lower_ext(f.ext) # ".pdf" THEN "ValueError: File must be a PDF"
    ELSE IF f.size > MAX_FILE_SIZE THEN "ValueError: File size exceeds maximum"
    ELSE "ok"

ValidationErrors ==
    {"FileNotFoundError", "ValueError: File must be a PDF",
     "ValueError: File size exceeds maximum"}

NoFile == [exists |-> FALSE, ext |-> "", size |-> 0]

\* a response: which request, the HTTP status (0 for a direct call), the
\* message, the place it came from, the request's argument and the length
\* of the chat history when the step began
Response(kind, id, status, detail, stage, file, question) ==
    [kind |-> kind, id |-> id, status |-> status, detail |-> detail,
     stage |-> stage, file |-> file, question |-> question,
     before |-> Len(chat_history)]

NoResp ==
    [kind |-> "none", id |-> 0, status |-> 0, detail |-> "none", stage |-> "none",
     file |-> NoFile, question |-> <<>>, before |-> 0]

\* process_pdf from its first line to the suspension in asyncio.gather:
\* validation, then the three extractor tasks are created; an upload in
\* flight keeps the size of its body only while the body is being saved
process_pdf_begin(id, f, via) ==
    IF validate_pdf(f) = "ok"
    THEN /\ uploads' = [u \in DOMAIN uploads \ {id} |-> uploads[u]] @@
                       (id :> [pc |-> "extracting", via |-> via, size |-> 0,
                               text |-> "running", table |-> "running",
                               visual |-> "running"])
         /\ resp' = Response("upload", id, 0, "extracting", "started", f, <<>>)
    ELSE /\ uploads' = [u \in DOMAIN uploads \ {id} |-> uploads[u]]
         /\ resp' = Response("upload", id,
                IF via = "endpoint" THEN 500 ELSE 0,
                validate_pdf(f),
                "validate", f, <<>>)

\* upload_pdf_endpoint: the temporary file the body is written to
tmp_path(size) == [exists |-> TRUE, ext |-> ".pdf", size |-> size]

\* upload_pdf_endpoint up to the first read of the body: the filename check
upload_arrive(ext, size) ==
    /\ nUp < MaxUploads
    /\ nUp' = nUp + 1
    /\ IF lower_ext(ext) # ".pdf"
       THEN /\ resp' = Response("upload", nUp + 1,
                400,
                "Only PDF files are supported.",
                "endpoint", [exists |-> TRUE, ext |-> ext, size |-> size], <<>>)
            /\ UNCHANGED uploads
       ELSE /\ uploads' = uploads @@
                  ((nUp + 1) :> [pc |-> "saving", via |-> "endpoint", size |-> size,
                                 text |-> "idle", table |-> "idle", visual |-> "idle"])
            /\ UNCHANGED resp
    /\ UNCHANGED <<vectorstore, chain, chat_history, chats, nChat, everProcessed>>

\* upload_pdf_endpoint: the body has been read into the temporary file (or
\* found too large); process_pdf is entered without a suspension in between
upload_saved(id) ==
    /\ id \in DOMAIN uploads
    /\ uploads[id].pc = "saving"
    /\ IF uploads[id].size > MAX_SIZE
       THEN /\ uploads' = [u \in DOMAIN uploads \ {id} |-> uploads[u]]
            /\ resp' = Response("upload", id,
                413,
                "File too large. Maximum size is 10MB.",
                "endpoint", tmp_path(uploads[id].size), <<>>)
       ELSE process_pdf_begin(id, tmp_path(uploads[id].size), "endpoint")
    /\ UNCHANGED <<vectorstore, chain, chat_history, chats, nUp, nChat, everProcessed>>

\* a direct call of PDFProcessor.process_pdf(file_path)
process_pdf_call(f) ==
    /\ nUp < MaxUploads
    /\ nUp' = nUp + 1
    /\ process_pdf_begin(nUp + 1, f, "direct")
    /\ UNCHANGED <<vectorstore, chain, chat_history, chats, nChat, everProcessed>>

\* TextExtractor.async_extract as a task of the gather: it has no handler of
\* its own, so an error of the reader or of a page propagates
text_task(id, outcome) ==
    /\ id \in DOMAIN uploads
    /\ uploads[id].pc = "extracting"
    /\ uploads[id].text = "running"
    /\ outcome \in {"done", "failed"}
    /\ uploads' = [uploads EXCEPT ![id].text = outcome]
    /\ UNCHANGED <<vectorstore, chain, chat_history, chats, nUp, nChat, resp, everProcessed>>

\* TableExtractor.async_extract as a task: every error is caught inside
table_task(id) ==
    /\ id \in DOMAIN uploads
    /\ uploads[id].pc = "extracting"
    /\ uploads[id].table = "running"
    /\ uploads' = [uploads EXCEPT ![id].table = "done"]
    /\ UNCHANGED <<vectorstore, chain, chat_history, chats, nUp, nChat, resp, everProcessed>>

\* VisualExtractor.async_extract as a task: every error is caught inside
visual_task(id) ==
    /\ id \in DOMAIN uploads
    /\ uploads[id].pc = "extracting"
    /\ uploads[id].visual = "running"
    /\ uploads' = [uploads EXCEPT ![id].visual = "done"]
    /\ UNCHANGED <<vectorstore, chain, chat_history, chats, nUp, nChat, resp, everProcessed>>

\* process_pdf resumed by a failed gather: the first exception of a task is
\* re-raised as ValueError("Error processing PDF: ...")
gather_failed(id) ==
    /\ id \in DOMAIN uploads
    /\ uploads[id].pc = "extracting"
    /\ uploads[id].text = "failed"
    /\ uploads' = [u \in DOMAIN uploads \ {id} |-> uploads[u]]
    /\ resp' = Response("upload", id,
                IF uploads[id].via = "endpoint" THEN 500 ELSE 0,
                "ValueError: Error processing PDF",
                "gather", NoFile, <<>>)
    /\ UNCHANGED <<vectorstore, chain, chat_history, chats, nUp, nChat, everProcessed>>

FuseOutcomes(via) ==
    {"ok", "index_fail", "chain_fail"} \cup
    (IF via = "endpoint" THEN {"save_fail"} ELSE {})

gather_complete_text_only(u) == u.text = "done"

\* the gather of process_pdf is complete when all three tasks are
gather_complete(u) == u.text = "done" /\ u.table = "done" /\ u.visual = "done"

\* process_pdf after the gather: self.vectorstore is assigned as soon as the
\* index is built, self.chain only once the chain is built; the value is the
\* pair <<vectorstore, chain>> the call leaves behind
publish(id, outcome) ==
    IF outcome = "index_fail" THEN <<vectorstore, chain>>
    ELSE IF outcome = "chain_fail" THEN <<id, chain>>
    ELSE <<id, id>>

reset_history_never(h, via, outcome) == h

\* upload_pdf_endpoint: chat_history = [] right after process_pdf returned
reset_history(h, via, outcome) ==
    IF via = "endpoint" /\ outcome \in {"ok", "save_fail"} THEN <<>> ELSE h

\* process_pdf resumed by a complete gather, run to its return or raise, and
\* upload_pdf_endpoint from there to its response: one event-loop step
fuse(id, outcome) ==
    /\ id \in DOMAIN uploads
    /\ uploads[id].pc = "extracting"
    /\ gather_complete(uploads[id])
    /\ outcome \in FuseOutcomes(uploads[id].via)
    /\ vectorstore' = publish(id, outcome)[1]
    /\ chain' = publish(id, outcome)[2]
    /\ chat_history' = reset_history(chat_history, uploads[id].via, outcome)
    /\ everProcessed' = (everProcessed \/ outcome \in {"ok", "save_fail"})
    /\ uploads' = [u \in DOMAIN uploads \ {id} |-> uploads[u]]
    /\ resp' = Response("upload", id,
                IF uploads[id].via # "endpoint" THEN 0 ELSE IF outcome = "ok" THEN 200 ELSE 500,
                IF outcome = "ok" THEN "success" ELSE IF outcome = "save_fail" THEN "OSError" ELSE "ValueError: Error processing PDF",
                outcome, NoFile, <<>>)
    /\ UNCHANGED <<chats, nUp, nChat>>

Questions == {<<>>, <<" ">>, <<"q", " ">>}

ask_question_ready_always(ch) == TRUE

\* ask_question: "if not self.chain: raise ValueError(...)"
ask_question_ready(ch) == ch # None

\* chat_endpoint up to the suspension in chain.ainvoke
chat_arrive(q) ==
    /\ nChat < MaxChats
    /\ nChat' = nChat + 1
    /\ IF strip(q) = <<>>
       THEN /\ resp' = Response("chat", nChat + 1,
                400,
                "Question cannot be empty.",
                "endpoint", NoFile, q)
            /\ UNCHANGED chats
       ELSE IF ~ask_question_ready(chain)
       THEN /\ resp' = Response("chat", nChat + 1,
                400,
                "No PDF has been processed yet. Please upload a PDF first.",
                "ask_question", NoFile, q)
            /\ UNCHANGED chats
       ELSE IF chain = None
       THEN /\ resp' = Response("chat", nChat + 1,
                500,
                "AttributeError",
                "ask_question", NoFile, q)
            /\ UNCHANGED chats
       ELSE /\ chats' = chats @@
                  ((nChat + 1) :> [question |-> strip(q), chain |-> chain,
                                   hist |-> chat_history])
            /\ UNCHANGED resp
    /\ UNCHANGED <<vectorstore, chain, chat_history, uploads, nUp, everProcessed>>

ChainOutcomes == {"ok", "ValueError", "Exception"}

\* chat_endpoint resumed by chain.ainvoke: the sources are built, the turn is
\* appended to the list the global names now, and the response is returned
chat_finish(id, outcome) ==
    /\ id \in DOMAIN chats
    /\ outcome \in ChainOutcomes
    /\ chats' = [c \in DOMAIN chats \ {id} |-> chats[c]]
    /\ IF outcome = "ok"
       THEN /\ chat_history' = Append(chat_history,
                   [question |-> chats[id].question, by |-> chats[id].chain, n |-> id])
            /\ resp' = Response("chat", id,
                200,
                "answer",
                "answer", NoFile, chats[id].question)
       ELSE /\ resp' = Response("chat", id,
                IF outcome = "ValueError" THEN 400 ELSE 500,
                outcome,
                "ainvoke", NoFile, chats[id].question)
            /\ UNCHANGED chat_history
    /\ UNCHANGED <<vectorstore, chain, uploads, nUp, nChat, everProcessed>>

(***************************************************************************)
(* text_extractor.py: TextExtractor                                        *)
(***************************************************************************)
\* any(char.isdigit() and char + "." in line for char in "123456789")
numbered(line) ==
    \E i \in 1 .. (Len(line) - 1) :
        line[i] \in (Digits \ {"0"}) /\ line[i + 1] = "."

\* _is_heading: "True", "False", or the exception it raises.  The test of
\* the first character is the last operand of the "or" and is evaluated
\* only when the four before it are false.
_is_heading(line0) ==
    IF line0 = <<>> THEN "False"
    ELSE LET line == strip(line0) IN
         IF word_count(line) <= 10
         THEN IF isupper(line) \/ istitle(line) \/ numbered(line) \/ endswith(line, ":")
              THEN "True"
              ELSE IF Len(line) < 100
                   THEN IF line = <<>> THEN "IndexError"
                        ELSE IF line[1] \in Upper THEN "True" ELSE "False"
                   ELSE "False"
         ELSE "False"

\* _determine_heading_level
_determine_heading_level(heading0) ==
    LET heading == strip(heading0) IN
    IF numbered(heading)
    THEN LET parts == split(heading, ".")
         IN  Cardinality({i \in 1 .. Len(parts) : parts[i] # <<>> /\ isdigit(parts[i][1])})
    ELSE IF isupper(heading) THEN 1
    ELSE IF istitle(heading) /\ Len(heading) < 50 THEN 2
    ELSE 3

NoStatistics == [total_words |-> 0, total_paragraphs |-> 0, total_headings |-> 0]

\* the three places of async_extract that turn the paragraph buffer into a
\* paragraph block and count it (blank line, heading, end of page); acc is
\* the pair of the page's blocks and the statistics
flush(buffer, acc) ==
    IF buffer = <<>> THEN acc
    ELSE LET paragraph_text == join(buffer, <<" ">>)
         IN  [page_content |-> Append(acc.page_content,
                                   [type |-> "paragraph", text |-> paragraph_text, level |-> 0]),
              statistics |-> [acc.statistics EXCEPT
                                 !.total_paragraphs = @ + 1,
                                 !.total_words = @ + word_count(paragraph_text)]]

end_of_page_no_flush(buffer, acc) == acc

\* async_extract, "Handle any remaining paragraph text" at the end of a page
end_of_page(buffer, acc) == flush(buffer, acc)

\* async_extract: the loop over the lines of one page
RECURSIVE page_lines(_, _, _)
page_lines(lines, buffer, acc) ==
    IF lines = <<>> THEN end_of_page(buffer, acc)
    ELSE LET line == strip(Head(lines)) IN
         IF line = <<>>
         THEN page_lines(Tail(lines), <<>>, flush(buffer, acc))
         ELSE IF _is_heading(line) = "True"
         THEN LET flushed == flush(buffer, acc)
              IN  page_lines(Tail(lines), <<>>,
                     [page_content |-> Append(flushed.page_content,
                                          [type |-> "heading", text |-> line,
                                           level |-> _determine_heading_level(line)]),
                      statistics |-> [flushed.statistics EXCEPT !.total_headings = @ + 1]])
         ELSE page_lines(Tail(lines), Append(buffer, line), acc)

\* async_extract: the loop over the pages; texts[i] is page.extract_text()
RECURSIVE pages_loop(_, _, _)
pages_loop(texts, content, statistics) ==
    IF texts = <<>> THEN [content |-> content, statistics |-> statistics]
    ELSE IF Head(texts) = <<>>
    THEN pages_loop(Tail(texts), content, statistics)
    ELSE LET done == page_lines(split(Head(texts), "\n"), <<>>,
                                [page_content |-> <<>>, statistics |-> statistics])
         IN  pages_loop(Tail(texts), content \o done.page_content, done.statistics)

\* TextExtractor.async_extract
text_async_extract(texts) ==
    LET r == pages_loop(texts, <<>>, NoStatistics)
    IN  [content |-> r.content, statistics |-> r.statistics, total_pages |-> Len(texts)]

(***************************************************************************)
(* table_extractor.py: TableExtractor                                      *)
(***************************************************************************)
\* a cell pdfplumber reports as None
NoneCell == <<"None">>

\* str(cell).strip() if cell else ""
clean_cell(cell) == IF cell = NoneCell \/ cell = <<>> THEN <<>> ELSE strip(cell)

_format_table_for_llm_keep_blank_rows(table) ==
    join([r \in 1 .. Len(table) |->
             join([c \in 1 .. Len(table[r]) |-> clean_cell(table[r][c])], <<" ", "|", " ">>)],
         <<"\n">>)

RECURSIVE formatted_rows(_)
formatted_rows(table) ==
    IF table = <<>> THEN <<>>
    ELSE LET cleaned_row == [c \in 1 .. Len(Head(table)) |-> clean_cell(Head(table)[c])]
         IN  IF \E c \in 1 .. Len(cleaned_row) : cleaned_row[c] # <<>>
             THEN <<join(cleaned_row, <<" ", "|", " ">>)>> \o formatted_rows(Tail(table))
             ELSE formatted_rows(Tail(table))

\* _format_table_for_llm
_format_table_for_llm(table) == join(formatted_rows(table), <<"\n">>)

\* what self.llm.ainvoke does with the prompt: it raises, or it replies with
\* text that json.loads accepts, or with text that json.loads rejects
Replies == {"json", "prose", "raise"}

\* _process_table_with_llm, given the outcome of the model call
_process_table_with_llm(table_text, reply) ==
    IF reply = "raise"
    THEN [success |-> FALSE, structured_data |-> [error |-> "Exception"]]
    ELSE IF reply = "json"
    THEN [success |-> TRUE, structured_data |-> [parsed |-> "response.content"]]
    ELSE [success |-> TRUE,
          structured_data |-> [raw_text |-> table_text, rows |-> split(table_text, "\n")]]

\* async_extract: the loop over the tables of one page; an entry is a raw
\* table with the outcome of its model call
RECURSIVE page_tables_loop(_, _, _, _)
page_tables_loop(entries, page_num, table_num, tables) ==
    IF entries = <<>> THEN tables
    ELSE LET table == Head(entries).table
             structured_table ==
                 _process_table_with_llm(_format_table_for_llm(table), Head(entries).reply)
         IN  IF table = <<>>
             THEN page_tables_loop(Tail(entries), page_num, table_num + 1, tables)
             ELSE IF structured_table.success
             THEN page_tables_loop(Tail(entries), page_num, table_num + 1,
                      Append(tables,
                          [page_number |-> page_num,
                           table_number |-> table_num,
                           structured_data |-> structured_table.structured_data,
                           metadata |-> [row_count |-> Len(table),
                                         column_count |-> Len(table[1])]]))
             ELSE page_tables_loop(Tail(entries), page_num, table_num + 1, tables)

\* async_extract: the loop over the pages inside the try; "raised" when
\* page.extract_tables() raises on page fails_at
RECURSIVE table_pages_loop(_, _, _, _)
table_pages_loop(pages, page_num, fails_at, tables) ==
    IF page_num > Len(pages) THEN [raised |-> FALSE, tables |-> tables]
    ELSE IF page_num = fails_at THEN [raised |-> TRUE, tables |-> tables]
    ELSE table_pages_loop(pages, page_num + 1, fails_at,
             page_tables_loop(pages[page_num], page_num, 1, tables))

\* TableExtractor.async_extract: the "tables" of its result
table_async_extract(doc) ==
    LET r == table_pages_loop(doc.pages, 1, doc.fails_at, <<>>)
    IN  IF r.raised THEN <<>> ELSE r.tables

(***************************************************************************)
(* visual_extractor.py: VisualExtractor                                    *)
(***************************************************************************)
\* what pytesseract.image_to_string gives when it raises
OCRError == <<"OCRError">>

\* _extract_text_from_region: the trimmed OCR text, "" when the OCR raises
_extract_text_from_region(ocr) == IF ocr = OCRError THEN <<>> ELSE strip(ocr)

\* _determine_graph_type; spacing is how the two mean spacings compare
\* ("near": they differ by less than 10), or "raise" when computing them fails
_determine_graph_type(h, v, spacing) ==
    IF spacing = "raise" THEN "unknown_graph_type"
    ELSE IF spacing = "near" THEN "grid_chart"
    ELSE IF v > h THEN "bar_chart"
    ELSE "line_graph"

enough_lines_three(h, v) == h >= 3 /\ v >= 3

\* _detect_and_process_graph: "Check for sufficient graph elements"
enough_lines(h, v) == h >= 2 /\ v >= 2

\* _detect_and_process_graph: the graph data in a one-element sequence, the
\* empty sequence for None.  page.detect is what the edge and line detection
\* did: it raised, it found no line (None), or it found lines, of which h
\* were classified horizontal and v vertical
_detect_and_process_graph(page) ==
    IF page.detect # "lines" THEN <<>>
    ELSE IF enough_lines(page.h, page.v)
    THEN <<[graph_type |-> _determine_graph_type(page.h, page.v, page.spacing),
            axes |-> [horizontal |-> page.h, vertical |-> page.v]]>>
    ELSE <<>>

NoVisualElements ==
    [images |-> <<>>, graphs |-> <<>>,
     statistics |-> [total_images |-> 0, total_graphs |-> 0, total_text_extracted |-> 0],
     error |-> FALSE]

\* async_extract: the body of the loop for one page
visual_page(page, page_num, ve) ==
    LET graph_data == _detect_and_process_graph(page)
        text == _extract_text_from_region(page.ocr)
    IN  IF graph_data # <<>>
        THEN [ve EXCEPT
                 !.graphs = Append(@, [page_number |-> page_num,
                                       graph_data |-> graph_data[1],
                                       extracted_text |-> text,
                                       type |-> graph_data[1].graph_type]),
                 !.statistics.total_graphs = @ + 1,
                 !.statistics.total_text_extracted = @ + word_count(text)]
        ELSE IF strip(text) # <<>>
        THEN [ve EXCEPT
                 !.images = Append(@, [page_number |-> page_num,
                                       extracted_text |-> text,
                                       word_count |-> word_count(text),
                                       type |-> "image"]),
                 !.statistics.total_images = @ + 1,
                 !.statistics.total_text_extracted = @ + word_count(text)]
        ELSE ve

\* async_extract: the loop over the rasterized pages inside the try;
\* "raised" when the conversion of page fails_at to an array raises
RECURSIVE visual_pages_loop(_, _, _, _)
visual_pages_loop(pages, page_num, fails_at, ve) ==
    IF page_num > Len(pages) THEN [raised |-> FALSE, ve |-> ve]
    ELSE IF page_num = fails_at THEN [raised |-> TRUE, ve |-> ve]
    ELSE visual_pages_loop(pages, page_num + 1, fails_at,
             visual_page(pages[page_num], page_num, ve))

\* VisualExtractor.async_extract: doc.convert is what convert_from_path did
visual_async_extract(doc) ==
    IF doc.convert = "raise" THEN [NoVisualElements EXCEPT !.error = TRUE]
    ELSE LET r == visual_pages_loop(doc.pages, 1, doc.fails_at, NoVisualElements)
         IN  IF r.raised THEN [NoVisualElements EXCEPT !.error = TRUE] ELSE r.ve

(***************************************************************************)
(* app.py: the corpus lines of _create_vectorstore and the citations of    *)
(* ask_question                                                            *)
(***************************************************************************)
\* f"[{item['type'].capitalize()}] {item['text']}"
text_line(type, text) ==
    (IF type = "heading" THEN <<"[", "H", "e", "a", "d", "i", "n", "g", "]", " ">> ELSE <<"[", "P", "a", "r", "a", "g", "r", "a", "p", "h", "]", " ">>) \o text

\* f"[Table on page {page_number}] " + ...
table_line(page_number, rest) == <<"[", "T", "a", "b", "l", "e", " ", "o", "n", " ", "p", "a", "g", "e", " ">> \o str(page_number) \o <<"]", " ">> \o rest

\* f"[Graph on page {page_number}] " + ...
graph_line(page_number, rest) == <<"[", "G", "r", "a", "p", "h", " ", "o", "n", " ", "p", "a", "g", "e", " ">> \o str(page_number) \o <<"]", " ">> \o rest

\* f"[Image on page {page_number}] " + ...
image_line(page_number, rest) == <<"[", "I", "m", "a", "g", "e", " ", "o", "n", " ", "p", "a", "g", "e", " ">> \o str(page_number) \o <<"]", " ">> \o rest

\* f"Type: {graph.get('type', 'unknown')}. " + f"Extracted text: {...}"
graph_rest(type, extracted_text) ==
    <<"T", "y", "p", "e", ":", " ">> \o type \o <<".", " ">> \o
    <<"E", "x", "t", "r", "a", "c", "t", "e", "d", " ", "t", "e", "x", "t", ":", " ">> \o
    extracted_text

\* process_pdf: "Combine all extracted data in structured format", from the
\* three results of the gather in the order of its arguments
extracted_data(text_content, table_content, visual_content) ==
    [text |-> text_content, tables |-> table_content, visual_elements |-> visual_content]

\* _create_vectorstore: the list texts, one line per text block, then per
\* table record, then per graph, then per image; a table's structured_data
\* is carried as the text json.dumps gives for it
corpus_texts(data) ==
    [i \in 1 .. Len(data.text.content) |->
        text_line(data.text.content[i].type, data.text.content[i].text)] \o
    [i \in 1 .. Len(data.tables) |->
        table_line(data.tables[i].page_number, data.tables[i].json)] \o
    [i \in 1 .. Len(data.visual_elements.graphs) |->
        graph_line(data.visual_elements.graphs[i].page_number,
                   graph_rest(data.visual_elements.graphs[i].type,
                              data.visual_elements.graphs[i].extracted_text))] \o
    [i \in 1 .. Len(data.visual_elements.images) |->
        image_line(data.visual_elements.images[i].page_number,
                   data.visual_elements.images[i].extracted_text)]

CHUNK_SIZE == 1500
CHUNK_OVERLAP == 200

\* RecursiveCharacterTextSplitter.split_text at its first separator, the
\* blank line: the starts of the non-overlapping matches of "\n\n"
separator_positions(s) ==
    {i \in 1 .. (Len(s) - 1) :
        /\ s[i] = "\n" /\ s[i + 1] = "\n"
        /\ LET r == CHOOSE k \in 1 .. i :
                        /\ \A m \in k .. i : s[m] = "\n"
                        /\ (k = 1 \/ s[k - 1] # "\n")
           IN  (i - r) % 2 = 0}

\* s cut before each of the positions ps, from position start on
RECURSIVE cut_at(_, _, _)
cut_at(s, start, ps) ==
    IF ps = {} THEN <<SubSeq(s, start, Len(s))>>
    ELSE LET p == CHOOSE k \in ps : \A m \in ps : k <= m
         IN  <<SubSeq(s, start, p - 1)>> \o cut_at(s, p, ps \ {p})

\* the splits: the separator is kept at the start of the piece it precedes
\* and empty pieces are dropped
_split_text_with_regex(s) ==
    SelectSeq(cut_at(s, 1, separator_positions(s)), LAMBDA piece : piece # <<>>)

\* _join_docs: the pieces of a chunk joined and trimmed; a chunk is kept with
\* the numbers of the splits it was joined from
_join_docs(splits, current_doc, docs) ==
    LET text == strip(join([k \in 1 .. Len(current_doc) |-> splits[current_doc[k]]], <<>>))
    IN  IF text = <<>> THEN docs
        ELSE Append(docs, [page_content |-> text, splits |-> current_doc])

\* _merge_splits, the inner while: pieces leave the front of the current
\* chunk until what stays is within the overlap and leaves room for the next
RECURSIVE drop_front(_, _, _, _)
drop_front(splits, current_doc, total, len) ==
    IF total > CHUNK_OVERLAP \/ (total + len > CHUNK_SIZE /\ total > 0)
    THEN drop_front(splits, Tail(current_doc),
                    total - Len(splits[Head(current_doc)]), len)
    ELSE [current_doc |-> current_doc, total |-> total]

\* _merge_splits, with the empty separator used when separators are kept
RECURSIVE _merge_splits(_, _, _, _, _)
_merge_splits(splits, i, current_doc, total, docs) ==
    IF i > Len(splits) THEN _join_docs(splits, current_doc, docs)
    ELSE LET len == Len(splits[i]) IN
         IF total + len > CHUNK_SIZE /\ current_doc # <<>>
         THEN LET kept == drop_front(splits, current_doc, total, len)
              IN  _merge_splits(splits, i + 1, Append(kept.current_doc, i),
                                kept.total + len, _join_docs(splits, current_doc, docs))
         ELSE _merge_splits(splits, i + 1, Append(current_doc, i), total + len, docs)

\* text_splitter.split_text(corpus), for a corpus each of whose pieces is
\* shorter than the chunk size, so that no piece is split again at the
\* finer separators
split_text(text) == _merge_splits(_split_text_with_regex(text), 1, <<>>, 0, <<>>)

\* _create_vectorstore: the chunks of "\n\n".join(texts)
corpus_chunks(data) == split_text(join(corpus_texts(data), <<"\n", "\n">>))

\* the positions at which r"page (\d+)" matches
page_matches(s) ==
    {i \in 1 .. (Len(s) - 5) : SubSeq(s, i, i + 4) = <<"p", "a", "g", "e", " ">> /\ isdigit(s[i + 5])}

\* the digits ("\d+", greedy) of the match at position i
matched_digits(s, i) ==
    LET last == CHOOSE j \in (i + 5) .. Len(s) :
                    /\ \A k \in (i + 5) .. j : isdigit(s[k])
                    /\ (j = Len(s) \/ ~isdigit(s[j + 1]))
    IN  SubSeq(s, i + 5, last)

re_search_page_last(s) ==
    IF page_matches(s) = {} THEN <<>>
    ELSE LET i == CHOOSE k \in page_matches(s) : \A m \in page_matches(s) : k >= m
         IN  <<int(matched_digits(s, i))>>

\* re.search(r"page (\d+)", source_text) and int(group(1)): the page number
\* of the leftmost match as a one-element sequence, the empty sequence for None
re_search_page(s) ==
    IF page_matches(s) = {} THEN <<>>
    ELSE LET i == CHOOSE k \in page_matches(s) : \A m \in page_matches(s) : k <= m
         IN  <<int(matched_digits(s, i))>>

\* ask_question: "Determine source type and location"
source_type(source_text) ==
    IF startswith(source_text, <<"[", "T", "a", "b", "l", "e">>) THEN "table"
    ELSE IF startswith(source_text, <<"[", "G", "r", "a", "p", "h">>) THEN "graph"
    ELSE IF startswith(source_text, <<"[", "I", "m", "a", "g", "e">>) THEN "image"
    ELSE "text"

\* ask_question: the sources built from result["source_documents"]
sources(source_documents) ==
    [i \in 1 .. Len(source_documents) |->
        [type |-> source_type(source_documents[i]),
         page |-> re_search_page(source_documents[i]),
         content |-> source_documents[i]]]

(***************************************************************************)
(* The session: requests to the two endpoints, in any interleaving         *)
(***************************************************************************)
SessionInit ==
    /\ vectorstore = None
    /\ chain = None
    /\ chat_history = <<>>
    /\ uploads = <<>>
    /\ chats = <<>>
    /\ nUp = 0
    /\ nChat = 0
    /\ resp = NoResp
    /\ everProcessed = FALSE

Init ==
    /\ SessionInit
    /\ mode = "session"
    /\ input = <<>>
    /\ output = <<>>

UploadArrive == \E e \in Exts, s \in Sizes : upload_arrive(e, s) /\ UNCHANGED funcVars
UploadSaved == \E id \in DOMAIN uploads : upload_saved(id) /\ UNCHANGED funcVars
TextTask == \E id \in DOMAIN uploads, o \in {"done", "failed"} : text_task(id, o) /\ UNCHANGED funcVars
TableTask == \E id \in DOMAIN uploads : table_task(id) /\ UNCHANGED funcVars
VisualTask == \E id \in DOMAIN uploads : visual_task(id) /\ UNCHANGED funcVars
GatherFailed == \E id \in DOMAIN uploads : gather_failed(id) /\ UNCHANGED funcVars
Fuse == \E id \in DOMAIN uploads, o \in FuseOutcomes("endpoint") : fuse(id, o) /\ UNCHANGED funcVars
ChatArrive == \E q \in Questions : chat_arrive(q) /\ UNCHANGED funcVars
ChatFinish == \E id \in DOMAIN chats, o \in ChainOutcomes : chat_finish(id, o) /\ UNCHANGED funcVars

Next ==
    \/ UploadArrive
    \/ UploadSaved
    \/ TextTask
    \/ TableTask
    \/ VisualTask
    \/ GatherFailed
    \/ Fuse
    \/ ChatArrive
    \/ ChatFinish

Spec == Init /\ [][Next]_vars

(***************************************************************************)
(* PDFProcessor used directly: process_pdf(file_path) on arbitrary paths,  *)
(* with the chat endpoint as the caller of ask_question                    *)
(***************************************************************************)
ProcessPdfCall == \E f \in Files : process_pdf_call(f) /\ UNCHANGED funcVars

NextLib ==
    \/ ProcessPdfCall
    \/ TextTask
    \/ TableTask
    \/ VisualTask
    \/ GatherFailed
    \/ Fuse
    \/ ChatArrive
    \/ ChatFinish

SpecLib == Init /\ [][NextLib]_vars

(***************************************************************************)
(* One execution of process_pdf with the results of its three extractors:  *)
(* input is what each extractor returns for the file, output the tasks in  *)
(* the order they finished, the results of the gather (a slot holds the    *)
(* empty result until its task finishes) and the texts of the corpus       *)
(***************************************************************************)
HeadingA == [type |-> "heading", text |-> <<"A">>]
ParagraphBC == [type |-> "paragraph", text |-> <<"b", " ", "c">>]
TableOne == [page_number |-> 1, json |-> <<"{", "}">>]
GraphTwo ==
    [page_number |-> 2, type |-> <<"b", "a", "r", "_", "c", "h", "a", "r", "t">>,
     extracted_text |-> <<>>]
ImageThree == [page_number |-> 3, extracted_text |-> <<"x">>]

TextResults == {[content |-> c] : c \in {<<>>, <<HeadingA>>, <<HeadingA, ParagraphBC>>}}
TableResults == {<<>>, <<TableOne>>}
VisualResults ==
    {[graphs |-> <<>>, images |-> <<>>], [graphs |-> <<GraphTwo>>, images |-> <<ImageThree>>]}

NoResults ==
    [text |-> [content |-> <<>>], table |-> <<>>,
     visual |-> [graphs |-> <<>>, images |-> <<>>]]

InitGather ==
    /\ SessionInit
    /\ mode = "gather"
    /\ input \in [text : TextResults, table : TableResults, visual : VisualResults]
    /\ output = [order |-> <<>>, results |-> NoResults, texts |-> <<>>]

GatherCall ==
    /\ nUp = 0
    /\ \E f \in Files : process_pdf_call(f)
    /\ UNCHANGED funcVars

\* a task of the gather finishes: its result goes to the place of its
\* coroutine among the arguments of asyncio.gather
GatherText ==
    /\ \E id \in DOMAIN uploads : text_task(id, "done")
    /\ output' = [output EXCEPT !.order = Append(@, "text"), !.results.text = input.text]
    /\ UNCHANGED <<mode, input>>

GatherTextRaises ==
    /\ \E id \in DOMAIN uploads : text_task(id, "failed")
    /\ output' = [output EXCEPT !.order = Append(@, "text")]
    /\ UNCHANGED <<mode, input>>

GatherTable ==
    /\ \E id \in DOMAIN uploads : table_task(id)
    /\ output' = [output EXCEPT !.order = Append(@, "table"), !.results.table = input.table]
    /\ UNCHANGED <<mode, input>>

GatherVisual ==
    /\ \E id \in DOMAIN uploads : visual_task(id)
    /\ output' = [output EXCEPT !.order = Append(@, "visual"), !.results.visual = input.visual]
    /\ UNCHANGED <<mode, input>>

\* process_pdf after the gather: extracted_data is built from the three
\* results and _create_vectorstore builds the texts of the corpus from it
GatherFuse ==
    /\ \E id \in DOMAIN uploads, o \in FuseOutcomes("direct") : fuse(id, o)
    /\ output' = [output EXCEPT !.texts =
                     <<corpus_texts(extracted_data(output.results.text, output.results.table,
                                                   output.results.visual))>>]
    /\ UNCHANGED <<mode, input>>

NextGather ==
    \/ GatherCall
    \/ GatherText
    \/ GatherTextRaises
    \/ GatherTable
    \/ GatherVisual
    \/ GatherFailed
    \/ GatherFuse

SpecGather == InitGather /\ [][NextGather]_vars

\* C13: the texts of the corpus are built only in a step before which the
\* text, table and visual tasks of the call have all finished without error,
\* and they are the texts of the three extractors' results for the file,
\* whatever the order in which the three finished.
C13_FusionBarrier ==
    [][ output'.texts # output.texts =>
          /\ \E id \in DOMAIN uploads :
                /\ id \notin DOMAIN uploads'
                /\ uploads[id].text = "done"
                /\ uploads[id].table = "done"
                /\ uploads[id].visual = "done"
          /\ output'.texts =
                 <<corpus_texts(extracted_data(input.text, input.table, input.visual))>> ]_vars

\* C13 witness: the corpus of a document with text, a table, a graph and an
\* image was built after the visual task finished first and the text task last
C13_Witness ==
    /\ mode = "gather"
    /\ output.order = <<"visual", "table", "text">>
    /\ output.texts # <<>>
    /\ Len(output.texts[1]) = 5

(***************************************************************************)
(* Steps of the session, recognised from the two states of a step          *)
(***************************************************************************)
NotReadyMessage == "No PDF has been processed yet. Please upload a PDF first."

\* a chat request arrived in this step and ask_question was called
AskCalled == nChat' = nChat + 1 /\ strip(resp'.question) # <<>> /\ resp'.id = nChat'

\* a process_pdf call ended in this step
UploadEnded(id) ==
    /\ id \in DOMAIN uploads \/ nUp' = id
    /\ id \notin DOMAIN uploads'
    /\ resp'.kind = "upload"
    /\ resp'.id = id

\* ... by returning normally
UploadSucceeded(id) == UploadEnded(id) /\ resp'.stage \in {"ok", "save_fail"}

\* ... by an exception raised inside process_pdf after validation
UploadFailedFatally(id) ==
    UploadEnded(id) /\ resp'.stage \in {"gather", "index_fail", "chain_fail"}

IsAppend(h, g) == Len(g) = Len(h) + 1 /\ SubSeq(g, 1, Len(h)) = h

\* C1: while no document has ever been processed successfully, a call of
\* ask_question ends in the handled 400 "not ready" response and leaves the
\* index, the chain and the chat history unchanged (no call is left in
\* flight); the engine is Empty exactly until the first successful
\* process_pdf, and once it is Ready it never returns to Empty.
C1_EmptyToReadyOnly ==
    [][ /\ (everProcessed <=> chain # None)
        /\ (chain # None => chain' # None)
        /\ (AskCalled /\ ~everProcessed =>
               /\ resp'.kind = "chat"
               /\ resp'.status = 400
               /\ resp'.detail = NotReadyMessage
               /\ chats' = chats
               /\ UNCHANGED <<vectorstore, chain, chat_history>>) ]_vars

\* C1 witness: a question was refused as "not ready" after an upload had
\* been attempted and had failed
C1_Witness ==
    /\ resp.kind = "chat"
    /\ resp.status = 400
    /\ resp.detail = NotReadyMessage
    /\ strip(resp.question) # <<>>
    /\ ~everProcessed
    /\ nUp > 0

\* C2: the chat history changes only by the append of one turn at its end or
\* by the reset of a successful upload; whenever the chain changes (a new
\* index becomes live) the history is empty in the same state, and every
\* successful upload installs its own index and chain and empties the history.
C2_HistoryGrowsResetOnUpload ==
    [][ /\ (chat_history' # chat_history =>
               \/ IsAppend(chat_history, chat_history')
               \/ /\ chat_history' = <<>>
                  /\ \E id \in DOMAIN uploads : UploadSucceeded(id))
        /\ (chain' # chain => chat_history' = <<>>)
        /\ (\A id \in DOMAIN uploads : UploadSucceeded(id) =>
               /\ vectorstore' = id
               /\ chain' = id
               /\ chat_history' = <<>>) ]_vars

\* C2 witness: the second document superseded the first while the history
\* held at least one turn, and the history is empty
C2_Witness ==
    /\ resp.kind = "upload"
    /\ resp.stage = "ok"
    /\ resp.id = 2
    /\ resp.before > 0
    /\ chain = 2
    /\ chat_history = <<>>

\* C3 (as claimed): a process_pdf call that fails after validation leaves the
\* vectorstore, the chain and the chat history exactly as they were.
C3_NoPartialStatePublished ==
    [][ \A id \in DOMAIN uploads :
          UploadFailedFatally(id) => UNCHANGED <<vectorstore, chain, chat_history>> ]_vars

\* the files the validation is claimed to refuse
Refused(f) ==
    \/ ~f.exists
    \/ f.ext \notin {".pdf", ".PDF"}
    \/ f.size > 10485760

\* the file process_pdf was called with in this step
CalledFile == resp'.file

\* C4: process_pdf on a missing, non-PDF or oversized file raises a
\* validation error with no extractor started and the index, the chain and
\* the history unchanged; every other file (one of exactly 10 MB included)
\* passes validation and the three extractors are started.
C4_ValidationBeforeExtraction ==
    [][ nUp' = nUp + 1 =>
          /\ resp'.kind = "upload" /\ resp'.id = nUp'
          /\ IF Refused(CalledFile)
             THEN /\ nUp' \notin DOMAIN uploads'
                  /\ resp'.stage = "validate"
                  /\ resp'.detail \in ValidationErrors
                  /\ UNCHANGED <<vectorstore, chain, chat_history>>
             ELSE /\ nUp' \in DOMAIN uploads'
                  /\ resp'.stage = "started"
                  /\ uploads'[nUp'].text = "running"
                  /\ uploads'[nUp'].table = "running"
                  /\ uploads'[nUp'].visual = "running" ]_vars

\* C4 witness: an oversized file was refused while a document was live and
\* the history held a turn
C4_Witness ==
    /\ resp.stage = "validate"
    /\ resp.detail = "ValueError: File size exceeds maximum"
    /\ resp.file.size = MAX_FILE_SIZE + 1
    /\ chain # None
    /\ chat_history # <<>>

\* C12 (as claimed): a process_pdf call whose text extraction failed on a
\* page does not fail for the whole upload.
C12_TextPageFailureNotFatal ==
    [][ \A id \in DOMAIN uploads :
          (uploads[id].pc = "extracting" /\ uploads[id].text = "failed")
              => ~UploadFailedFatally(id) ]_vars

\* C14 (as claimed): the turns of the chat history are in the arrival order
\* of their questions, and the history a question in flight was passed holds
\* every turn of a question that arrived before it.
C14_TurnsInArrivalOrder ==
    /\ \A i, j \in 1 .. Len(chat_history) :
          i < j => chat_history[i].n < chat_history[j].n
    /\ \A c \in DOMAIN chats : \A i \in 1 .. Len(chat_history) :
          chat_history[i].n < c =>
              \E k \in 1 .. Len(chats[c].hist) : chats[c].hist[k] = chat_history[i]

\* C16 (as claimed): every turn in the chat history was answered by the
\* chain over the index of the document that is live now.
C16_TurnsOfLiveIndex ==
    \A i \in 1 .. Len(chat_history) : chat_history[i].by = chain

(***************************************************************************)
(* The heading classifier applied to one line                              *)
(***************************************************************************)
SeqsUpTo(S, n) == UNION {[1 .. k -> S] : k \in 0 .. n}

RECURSIVE Repeat(_, _)
Repeat(c, n) == IF n = 0 THEN <<>> ELSE <<c>> \o Repeat(c, n - 1)

HeadingAlphabet == {"A", "b", "1", ".", " ", ":"}

\* lines beyond the exhaustive length: eleven words, ten words, and lines of
\* 99 and 100 characters that begin with an uppercase letter
LongLines ==
    {<<"b", " ", "b", " ", "b", " ", "b", " ", "b", " ", "b", " ", "b", " ", "b", " ", "b", " ", "b", " ", "A">>,
     <<"b", " ", "b", " ", "b", " ", "b", " ", "b", " ", "b", " ", "b", " ", "b", " ", "b", " ", "A", ":">>,
     <<"A">> \o Repeat("b", 98),
     <<"A">> \o Repeat("b", 99)}

HeadingInputs(n) == SeqsUpTo(HeadingAlphabet, n) \cup LongLines

InitHeading ==
    /\ SessionInit
    /\ mode = "heading"
    /\ input \in HeadingInputs(MaxLineLen)
    /\ output = <<>>

\* _is_heading(line) and, as async_extract does for an accepted line,
\* _determine_heading_level(line)
HeadingCall ==
    /\ mode = "heading"
    /\ output = <<>>
    /\ output' = <<[is_heading |-> _is_heading(input),
                    level |-> _determine_heading_level(input)]>>
    /\ UNCHANGED <<sessionVars, mode, input>>

NextHeading == HeadingCall

SpecHeading == InitHeading /\ [][NextHeading]_vars

\* C8 (as claimed): every line _is_heading accepts gets a level of at least 1.
C8_HeadingLevelAtLeastOne ==
    (mode = "heading" /\ output # <<>> /\ output[1].is_heading = "True")
        => output[1].level >= 1

\* C9 (as claimed): _is_heading returns a boolean for every string, without
\* raising, and False for the empty string.
C9_IsHeadingTotal ==
    (mode = "heading" /\ output # <<>>)
        => /\ output[1].is_heading \in {"True", "False"}
           /\ (input = <<>> => output[1].is_heading = "False")

(***************************************************************************)
(* The Text Structurer applied to the page texts of a document             *)
(***************************************************************************)
\* a blank line, two body lines (padded, of one and of two words) and a heading
LineSet == {<<" ">>, <<" ", "b">>, <<"c", " ", "d", " ">>, <<"A">>}

\* the documents of exactly p pages with at most t lines in all; a page of
\* no line and a page of one empty line both have the empty text
RECURSIVE TextDocs(_, _)
TextDocs(p, t) ==
    IF p = 0 THEN {<<>>}
    ELSE UNION { { <<join(pg, <<"\n">>)>> \o d : d \in TextDocs(p - 1, t - Len(pg)) } :
                 pg \in SeqsUpTo(LineSet, t) }

TextInputs(pages, lines) == UNION {TextDocs(p, lines) : p \in 0 .. pages}

InitText ==
    /\ SessionInit
    /\ mode = "text"
    /\ input \in TextInputs(MaxPages, MaxDocLines)
    /\ output = <<>>

TextExtract ==
    /\ mode = "text"
    /\ output = <<>>
    /\ output' = <<text_async_extract(input)>>
    /\ UNCHANGED <<sessionVars, mode, input>>

NextText == TextExtract

SpecText == InitText /\ [][NextText]_vars

\* the kind of each line of a page: blank, heading or body
LineKind(line) ==
    IF strip(line) = <<>> THEN "blank"
    ELSE IF _is_heading(strip(line)) = "True" THEN "heading"
    ELSE "body"

\* the positions at which a block begins: every heading, and every body line
\* that does not follow a body line
BlockStarts(lines) ==
    {i \in 1 .. Len(lines) :
        \/ LineKind(lines[i]) = "heading"
        \/ /\ LineKind(lines[i]) = "body"
           /\ (i = 1 \/ LineKind(lines[i - 1]) # "body")}

\* the last line of the maximal run of body lines that begins at i
RunEnd(lines, i) ==
    CHOOSE j \in i .. Len(lines) :
        /\ \A k \in i .. j : LineKind(lines[k]) = "body"
        /\ (j = Len(lines) \/ LineKind(lines[j + 1]) # "body")

\* the block that begins at position i
BlockAt(lines, i) ==
    IF LineKind(lines[i]) = "heading"
    THEN [type |-> "heading", text |-> strip(lines[i])]
    ELSE [type |-> "paragraph",
          text |-> join([k \in 1 .. (RunEnd(lines, i) - i + 1) |-> strip(lines[i + k - 1])],
                        <<" ">>)]

RECURSIVE BlocksFrom(_, _)
BlocksFrom(lines, starts) ==
    IF starts = {} THEN <<>>
    ELSE LET i == CHOOSE k \in starts : \A m \in starts : k <= m
         IN  <<BlockAt(lines, i)>> \o BlocksFrom(lines, starts \ {i})

ExpectedPage(text) ==
    LET lines == split(text, "\n") IN BlocksFrom(lines, BlockStarts(lines))

RECURSIVE ExpectedContent(_)
ExpectedContent(texts) ==
    IF texts = <<>> THEN <<>>
    ELSE ExpectedPage(Head(texts)) \o ExpectedContent(Tail(texts))

TypeAndText(content) ==
    [i \in 1 .. Len(content) |-> [type |-> content[i].type, text |-> content[i].text]]

\* C10: the blocks of a document are, page after page and in line order, one
\* heading block per heading line and one paragraph block per maximal run of
\* body lines, whose text is the trimmed lines of the run joined by single
\* spaces; blank lines give no block and no run continues on the next page.
C10_OneParagraphPerRun ==
    (mode = "text" /\ output # <<>>)
        => TypeAndText(output[1].content) = ExpectedContent(input)

\* C10 witness: a two-page document with a heading and a paragraph joined from
\* two lines, the second page beginning with a body line
C10_Witness ==
    /\ mode = "text"
    /\ output # <<>>
    /\ Len(input) = 2
    /\ LineKind(split(input[2], "\n")[1]) = "body"
    /\ \E i \in 1 .. Len(output[1].content) :
          /\ output[1].content[i].type = "paragraph"
          /\ output[1].content[i].text = <<"b", " ", "c", " ", "d">>
    /\ \E i \in 1 .. Len(output[1].content) : output[1].content[i].type = "heading"

(***************************************************************************)
(* The Table Structurer applied to the raw tables of a document            *)
(***************************************************************************)
Cells == {NoneCell, <<>>, <<" ">>, <<" ", "a">>}

\* the rectangular tables of exactly k cells (the table of no row for k = 0)
TablesOfCells(k) ==
    IF k = 0 THEN {<<>>}
    ELSE UNION { [1 .. r -> [1 .. (k \div r) -> Cells]] :
                 r \in {d \in 1 .. k : k % d = 0} }

\* the table of scenario C: three rows of two empty strings
ScenarioC == [r \in 1 .. 3 |-> [c \in 1 .. 2 |-> <<>>]]

\* an entry costs one more than its number of cells; the model is not called
\* for a table of no row
EntriesOfCost(k) ==
    IF k = 1 THEN {[table |-> <<>>, reply |-> "json"]}
    ELSE [table : TablesOfCells(k - 1), reply : Replies]

\* the sequences of entries of a total cost of at most budget
RECURSIVE EntrySeqs(_)
EntrySeqs(budget) ==
    {<<>>} \cup
    UNION { { <<e>> \o rest : e \in EntriesOfCost(k), rest \in EntrySeqs(budget - k) } :
            k \in 1 .. budget }

\* the ways to cut a sequence of entries into n pages
RECURSIVE Paginations(_, _)
Paginations(entries, n) ==
    IF n = 0 THEN (IF entries = <<>> THEN {<<>>} ELSE {})
    ELSE UNION { { <<SubSeq(entries, 1, k)>> \o rest :
                   rest \in Paginations(SubSeq(entries, k + 1, Len(entries)), n - 1) } :
                 k \in 0 .. Len(entries) }

\* extraction fails on no page (0) or on some page
TableDocs(cost, pages) ==
    UNION { UNION { [pages : Paginations(es, n), fails_at : 0 .. n] :
                    n \in 0 .. pages } :
            es \in EntrySeqs(cost) \cup
                   {<<[table |-> ScenarioC, reply |-> rp]>> : rp \in Replies} }

InitTable ==
    /\ SessionInit
    /\ mode = "table"
    /\ input \in TableDocs(MaxTableCost, MaxTablePages)
    /\ output = <<>>

TableExtract ==
    /\ mode = "table"
    /\ output = <<>>
    /\ output' = <<table_async_extract(input)>>
    /\ UNCHANGED <<sessionVars, mode, input>>

NextTable == TableExtract

SpecTable == InitTable /\ [][NextTable]_vars

\* a cell that is neither null nor empty nor whitespace
NonBlankCell(cell) == cell # NoneCell /\ \E i \in 1 .. Len(cell) : ~isspace(cell[i])

HasNonBlankRow(table) ==
    \E r \in 1 .. Len(table) : \E c \in 1 .. Len(table[r]) : NonBlankCell(table[r][c])

\* the records of the result for table t of page p
RecordsOf(tables, p, t) ==
    {i \in 1 .. Len(tables) : tables[i].page_number = p /\ tables[i].table_number = t}

\* C5 (as claimed): each raw table yields exactly one record if it has a row
\* with a non-blank cell and no record if it is all blank.
C5_OneRecordPerNonBlankTable ==
    (mode = "table" /\ output # <<>>) =>
        \A p \in 1 .. Len(input.pages) : \A t \in 1 .. Len(input.pages[p]) :
            Cardinality(RecordsOf(output[1], p, t)) =
                IF HasNonBlankRow(input.pages[p][t].table) THEN 1 ELSE 0

\* the normalized text of a table: nulls as empty strings, cells trimmed
\* and joined by " | ", rows without a non-empty cell left out
TrimmedRows(table) ==
    [r \in 1 .. Len(table) |->
        [c \in 1 .. Len(table[r]) |->
            IF table[r][c] = NoneCell THEN <<>> ELSE strip(table[r][c])]]

NormalizedText(table) ==
    LET kept == SelectSeq(TrimmedRows(table),
                          LAMBDA row : \E c \in 1 .. Len(row) : row[c] # <<>>)
    IN  join([r \in 1 .. Len(kept) |-> join(kept[r], <<" ", "|", " ">>)], <<"\n">>)

\* C6: when the extraction itself does not fail, every raw table with at
\* least one row whose model reply is not valid JSON has exactly one record,
\* whose structured_data is raw_text, the normalized table text, and rows,
\* that text split at line breaks.
C6_FallbackKeepsTable ==
    (mode = "table" /\ output # <<>> /\ input.fails_at = 0) =>
        \A p \in 1 .. Len(input.pages) : \A t \in 1 .. Len(input.pages[p]) :
            (input.pages[p][t].table # <<>> /\ input.pages[p][t].reply = "prose") =>
                /\ Cardinality(RecordsOf(output[1], p, t)) = 1
                /\ \A i \in RecordsOf(output[1], p, t) :
                      /\ DOMAIN output[1][i].structured_data = {"raw_text", "rows"}
                      /\ output[1][i].structured_data.raw_text =
                             NormalizedText(input.pages[p][t].table)
                      /\ output[1][i].structured_data.rows =
                             split(NormalizedText(input.pages[p][t].table), "\n")

\* C6 witness: a two-row table with a blank row and a padded cell, answered
\* in prose, was recorded with the one remaining row as its raw_text
C6_Witness ==
    /\ mode = "table"
    /\ output # <<>>
    /\ \E p \in 1 .. Len(input.pages) : \E t \in 1 .. Len(input.pages[p]) :
          /\ input.pages[p][t].reply = "prose"
          /\ Len(input.pages[p][t].table) = 2
          /\ \E i \in RecordsOf(output[1], p, t) :
                output[1][i].structured_data.raw_text = <<"a">>

(***************************************************************************)
(* The Visual Structurer applied to the rasterized pages of a document     *)
(***************************************************************************)
MaxVisualPages == 2

\* the outcomes of the OCR call on a page: it raises, it gives only white
\* space, it gives a padded word
OcrOutcomes == {OCRError, <<" ", "\n">>, <<" ", "x">>}

\* a page on which the detection raised or found no line, a page with too
\* few horizontal or too few vertical lines, and pages with at least two of
\* each, for every outcome of the sub-typing
VisualPages ==
    [detect : {"raise", "none"}, h : {0}, v : {0}, spacing : {"far"}, ocr : OcrOutcomes]
    \cup [detect : {"lines"}, h : {1}, v : {3}, spacing : {"far"}, ocr : OcrOutcomes]
    \cup [detect : {"lines"}, h : {3}, v : {1}, spacing : {"far"}, ocr : OcrOutcomes]
    \cup [detect : {"lines"}, h : {2}, v : {2, 3}, spacing : {"near", "far", "raise"},
          ocr : OcrOutcomes]

\* the documents of at most n pages: the rasterization fails, or it gives
\* the pages and the loop fails on none (0) or on one of them
VisualDocs(n) ==
    {[convert |-> "raise", pages |-> <<>>, fails_at |-> 0]} \cup
    UNION { [convert : {"ok"}, pages : [1 .. k -> VisualPages], fails_at : 0 .. k] :
            k \in 0 .. n }

InitVisual ==
    /\ SessionInit
    /\ mode = "visual"
    /\ input \in VisualDocs(MaxVisualPages)
    /\ output = <<>>

VisualExtract ==
    /\ mode = "visual"
    /\ output = <<>>
    /\ output' = <<visual_async_extract(input)>>
    /\ UNCHANGED <<sessionVars, mode, input>>

NextVisual == VisualExtract

SpecVisual == InitVisual /\ [][NextVisual]_vars

\* the records of a list for page p
OfPage(records, p) == {i \in 1 .. Len(records) : records[i].page_number = p}

GraphTypes == {"grid_chart", "bar_chart", "line_graph", "unknown_graph_type"}

\* the line detection of the page found at least two horizontal and at least
\* two vertical lines
TwoAndTwo(page) == page.detect = "lines" /\ page.h >= 2 /\ page.v >= 2

\* the OCR output of the page is empty after trimming
OcrBlank(page) == page.ocr = OCRError \/ \A i \in 1 .. Len(page.ocr) : isspace(page.ocr[i])

\* C11: every record is of a rasterized page and a page has at most one
\* record in the graphs and images lists together; a page with at least two
\* horizontal and two vertical detected lines has no image record and, when
\* the extraction does not end in its own exception handler (which gives the
\* empty result), exactly one graph record, whatever the OCR gave, of type
\* unknown_graph_type if the sub-typing failed; a page whose OCR output is
\* empty after trimming has no image record.
C11_OneClassificationPerPage ==
    (mode = "visual" /\ output # <<>>) =>
        /\ \A i \in 1 .. Len(output[1].graphs) :
              output[1].graphs[i].page_number \in 1 .. Len(input.pages)
        /\ \A i \in 1 .. Len(output[1].images) :
              output[1].images[i].page_number \in 1 .. Len(input.pages)
        /\ \A p \in 1 .. Len(input.pages) :
              /\ Cardinality(OfPage(output[1].graphs, p)) +
                     Cardinality(OfPage(output[1].images, p)) <= 1
              /\ (TwoAndTwo(input.pages[p]) =>
                     /\ OfPage(output[1].images, p) = {}
                     /\ (~output[1].error =>
                            /\ Cardinality(OfPage(output[1].graphs, p)) = 1
                            /\ \A i \in OfPage(output[1].graphs, p) :
                                  /\ output[1].graphs[i].type \in GraphTypes
                                  /\ (input.pages[p].spacing = "raise" =>
                                         output[1].graphs[i].type = "unknown_graph_type")))
              /\ (~TwoAndTwo(input.pages[p]) => OfPage(output[1].graphs, p) = {})
              /\ (OcrBlank(input.pages[p]) => OfPage(output[1].images, p) = {})

\* C11 witness: of two pages, the first has two lines of each kind, a failed
\* sub-typing and a blank OCR output and is recorded as a graph of unknown
\* type; the second has too few vertical lines and is recorded as an image
C11_Witness ==
    /\ mode = "visual"
    /\ output # <<>>
    /\ Len(input.pages) = 2
    /\ TwoAndTwo(input.pages[1]) /\ OcrBlank(input.pages[1])
    /\ input.pages[2].detect = "lines" /\ input.pages[2].v = 1
    /\ Len(output[1].graphs) = 1
    /\ output[1].graphs[1].page_number = 1
    /\ output[1].graphs[1].type = "unknown_graph_type"
    /\ Len(output[1].images) = 1
    /\ output[1].images[1].page_number = 2

(***************************************************************************)
(* The citation builder applied to the chunks a retrieval returned         *)
(***************************************************************************)
CitePages == {3, 12}

\* the text of a chunk after its prefix: words that the pattern does not
\* match, then "page n" for each number of mentions
Leads == {<<>>, <<"p", "a", "g", "e", "s", " ", "4", " ">>}

MentionSeqs == {<<>>, <<5>>, <<40, 5>>}

RECURSIVE MentionText(_)
MentionText(mentions) ==
    IF mentions = <<>> THEN <<>>
    ELSE <<"p", "a", "g", "e", " ">> \o str(Head(mentions)) \o
         (IF Len(mentions) > 1 THEN <<" ">> ELSE <<>>) \o MentionText(Tail(mentions))

BodyText(c) == c.lead \o MentionText(c.mentions)

\* a chunk that begins with the line of a table, graph or image of a page,
\* with the line of a paragraph, or (a later slice of a long line) with no
\* bracketed prefix at all
ChunkShapes ==
    [family : {"table", "graph", "image"}, page : CitePages,
     lead : Leads, mentions : MentionSeqs]
    \cup [family : {"paragraph", "none"}, page : {0}, lead : Leads, mentions : MentionSeqs]

ChunkText(c) ==
    CASE c.family = "table" -> table_line(c.page, BodyText(c))
      [] c.family = "graph" -> graph_line(c.page, BodyText(c))
      [] c.family = "image" -> image_line(c.page, BodyText(c))
      [] c.family = "paragraph" -> text_line("paragraph", BodyText(c))
      [] c.family = "none" -> BodyText(c)

InitCite ==
    /\ SessionInit
    /\ mode = "cite"
    /\ input \in SeqsUpTo(ChunkShapes, MaxRetrieved)
    /\ output = <<>>

Cite ==
    /\ mode = "cite"
    /\ output = <<>>
    /\ output' = <<sources([i \in 1 .. Len(input) |-> ChunkText(input[i])])>>
    /\ UNCHANGED <<sessionVars, mode, input>>

NextCite == Cite

SpecCite == InitCite /\ [][NextCite]_vars

\* one citation per retrieved chunk, in rank order, and the citations of the
\* table and graph chunks
CitesPrefixedChunks ==
    /\ Len(output[1]) = Len(input)
    /\ \A i \in 1 .. Len(input) :
          /\ output[1][i].content = ChunkText(input[i])
          /\ (input[i].family = "table" =>
                 output[1][i].type = "table" /\ output[1][i].page = <<input[i].page>>)
          /\ (input[i].family = "graph" =>
                 output[1][i].type = "graph" /\ output[1][i].page = <<input[i].page>>)

\* C7 (as claimed): ... and a chunk with no bracketed prefix is cited as
\* text with a null page, whatever else it contains.
C7_AsClaimed ==
    (mode = "cite" /\ output # <<>>) =>
        /\ CitesPrefixedChunks
        /\ \A i \in 1 .. Len(input) :
              input[i].family = "none" =>
                  output[1][i].type = "text" /\ output[1][i].page = <<>>

\* C7 (amended): one citation per retrieved chunk in rank order; a chunk
\* beginning "[Table on page N]" is cited as table, page N, one beginning
\* "[Graph on page N]" as graph, page N; a chunk with no bracketed prefix is
\* cited as text, with a null page when its text has no "page <digits>" and
\* otherwise with the number of the first "page <digits>" in it.
C7_CitationFromPrefix ==
    (mode = "cite" /\ output # <<>>) =>
        /\ CitesPrefixedChunks
        /\ \A i \in 1 .. Len(input) :
              input[i].family = "none" =>
                  /\ output[1][i].type = "text"
                  /\ output[1][i].page =
                         IF input[i].mentions = <<>> THEN <<>>
                         ELSE <<input[i].mentions[1]>>

\* C7 witness: two chunks were cited, a table chunk of page 12 whose text
\* goes on to mention other pages, and an unprefixed chunk that mentions
\* page 40 first
C7_Witness ==
    /\ mode = "cite"
    /\ output # <<>>
    /\ Len(input) = 2
    /\ input[1].family = "table" /\ input[1].mentions = <<40, 5>>
    /\ output[1][1].page = <<12>>
    /\ input[2].family = "none"
    /\ output[1][2].type = "text" /\ output[1][2].page = <<40>>

(***************************************************************************)
(* The chunks of the corpus of a document and their citations              *)
(***************************************************************************)
MaxBlocks == 3

\* a paragraph that fills most of a chunk
LongParagraph == [type |-> "paragraph", text |-> [i \in 1 .. 1400 |-> "b"]]

BlockSet == {HeadingA, ParagraphBC, LongParagraph}

\* the extracted data of the documents of at most n text blocks, with or
\* without a table, and with or without a graph and an image
ChunkDocs(n) ==
    [text : {[content |-> c] : c \in SeqsUpTo(BlockSet, n)},
     tables : TableResults, visual_elements : VisualResults]

InitChunk ==
    /\ SessionInit
    /\ mode = "chunk"
    /\ input \in ChunkDocs(MaxBlocks)
    /\ output = <<>>

\* _create_vectorstore up to the chunks, and the citations ask_question
\* builds when a retrieval returns them
Chunk ==
    /\ mode = "chunk"
    /\ output = <<>>
    /\ output' = <<[chunks |-> corpus_chunks(input),
                    sources |-> sources([i \in 1 .. Len(corpus_chunks(input)) |->
                                            corpus_chunks(input)[i].page_content])]>>
    /\ UNCHANGED <<sessionVars, mode, input>>

NextChunk == Chunk

SpecChunk == InitChunk /\ [][NextChunk]_vars

\* the block family of each line of the corpus, by the citation type of the
\* family: text for headings and paragraphs, then table, graph, image
LineFamilies(data) ==
    [i \in 1 .. Len(data.text.content) |-> "text"] \o
    [i \in 1 .. Len(data.tables) |-> "table"] \o
    [i \in 1 .. Len(data.visual_elements.graphs) |-> "graph"] \o
    [i \in 1 .. Len(data.visual_elements.images) |-> "image"]

\* the families of the lines a chunk was joined from
ChunkFamilies(data, chunk) ==
    {LineFamilies(data)[chunk.splits[k]] : k \in 1 .. Len(chunk.splits)}

\* C15 (as claimed): every chunk of the corpus holds content of exactly one
\* block family, and the citation type derived from its prefix is that family.
C15_ChunkOfOneFamily ==
    (mode = "chunk" /\ output # <<>>) =>
        \A i \in 1 .. Len(output[1].chunks) :
            /\ Cardinality(ChunkFamilies(input, output[1].chunks[i])) = 1
            /\ output[1].sources[i].type \in ChunkFamilies(input, output[1].chunks[i])

TypeOK ==
    /\ vectorstore \in 0 .. MaxUploads
    /\ chain \in 0 .. MaxUploads
    /\ nUp \in 0 .. MaxUploads
    /\ nChat \in 0 .. MaxChats

====
